---- MODULE Spec2Model ----
(***************************************************************************)
(* herbiproof: a record store service (src/db/db.py, src/db/app.py) and a  *)
(* ledger facade service (src/pyScripts/blockchain.py).  The two services  *)
(* share no state; each has its own specification over its own variables.  *)
(***************************************************************************)
EXTENDS Integers, Sequences, FiniteSets, TLC

(***************************************************************************)
(* Bounds of the model.                                                    *)
(***************************************************************************)
\* rows the record store holds in total, over all tables
MaxRows == 2
\* requests the ledger facade handles in a behaviour
MaxRequests == 2
\* the farmers a run of creates stores at most: one more than a listing gives
MaxBulk == 11

(***************************************************************************)
(* RECORD STORE SERVICE                                                    *)
(***************************************************************************)
VARIABLES
    KYC, Farmers, Consumers, Batch, Orders, Ratings,
        \* the tables, each the sequence of its rows in insertion order
    lastReq,
        \* the POST request handled last: its endpoint, whether its body
        \* held every required field, and the rating it carried
    httpResp,
        \* the response to it: the HTTP status and the "success" member
    submitted
        \* history: per entity and id, the arguments of the create call
        \* that returned true

tables == <<KYC, Farmers, Consumers, Batch, Orders, Ratings>>
storeVars == <<KYC, Farmers, Consumers, Batch, Orders, Ratings,
               lastReq, httpResp, submitted>>

\* identifiers a request may carry
Ids == {"id1", "id2"}
\* ratings a request may carry: the ends of the accepted interval 0..5 and
\* the values next to them outside it
RatingInputs == {-1, 0, 5, 6}
\* Python's None (a record, so that it compares with a row)
None == [None |-> TRUE]
\* the instant of the request, as datetime.now(), DATE('now') and TIME('now') give it
Now == "now"

\* the fields each POST handler reads with data[...], in the order read
Required(ep) ==
    CASE ep = "kyc"       -> {"kyc_id", "document_number"}
      [] ep = "farmers"   -> {"farmer_id", "name", "kyc_id"}
      [] ep = "consumers" -> {"consumer_id", "consumer_name"}
      [] ep = "batches"   -> {"batch_id", "type", "farmer_id"}
      [] ep = "orders"    -> {"order_id", "order_from", "from_id", "receiver",
                              "receiver_id", "batch_id", "quantity", "price"}
      [] ep = "ratings"   -> {"rating_id", "consumer_id", "farmer_id", "rating"}

\* data.get(key, default)
DictGet(data, key, default) ==
    IF key \in DOMAIN data THEN data[key] ELSE default

\* a body holding every field of full but those of drop
Without(full, drop) == [f \in (DOMAIN full) \ drop |-> full[f]]
\* the sets of fields a request may leave out: none, or any one
Drops(fields) == {{}} \cup {{f} : f \in fields}

TotalRows == Len(KYC) + Len(Farmers) + Len(Consumers) + Len(Batch)
             + Len(Orders) + Len(Ratings)

(***************************************************************************)
(* The storage engine.  models.sql, the schema, is not among the source    *)
(* files: the identifier of each entity is taken to be its table's         *)
(* primary key ("each: unique identifier").  fault stands for every other  *)
(* reason the engine has to refuse a statement (a constraint of the        *)
(* schema, a locked file).                                                 *)
(***************************************************************************)
HasKey(rows, key, id) == \E i \in 1 .. Len(rows) : rows[i][key] = id

StoreAccepts(rows, key, row, fault) == ~fault /\ ~HasKey(rows, key, row[key])

\* DatabaseManager.execute_update with an INSERT: the rows after it, and
\* whether it raised
execute_update_half_done(rows, key, row, fault) ==
    IF StoreAccepts(rows, key, row, fault)
    THEN [raised |-> FALSE, rows |-> Append(rows, row)]
    ELSE [raised |-> TRUE, rows |-> Append(rows, row)]

execute_update(rows, key, row, fault) ==
    IF StoreAccepts(rows, key, row, fault)
    THEN [raised |-> FALSE, rows |-> Append(rows, row)]
    ELSE [raised |-> TRUE, rows |-> rows]

\* DatabaseManager.execute_query with "SELECT * FROM t WHERE key = ?"
execute_query(rows, key, id) == SelectSeq(rows, LAMBDA r : r[key] = id)

\* the create_* methods: ret is the boolean returned, rows the table after
create_kyc(rows, kyc_id, document_number, fault) ==
    LET u == execute_update(rows, "kyc_id",
                 [kyc_id |-> kyc_id, document_number |-> document_number,
                  verification_status |-> "Pending", verified_at |-> Now], fault)
    IN  [ret |-> ~u.raised, rows |-> u.rows]

create_farmer_swapped(rows, farmer_id, name, location, contact_number, kyc_id, fault) ==
    LET u == execute_update(rows, "farmer_id",
                 [farmer_id |-> farmer_id, name |-> name, location |-> contact_number,
                  contact_number |-> location, kyc_id |-> kyc_id], fault)
    IN  [ret |-> ~u.raised, rows |-> u.rows]

create_farmer(rows, farmer_id, name, location, contact_number, kyc_id, fault) ==
    LET u == execute_update(rows, "farmer_id",
                 [farmer_id |-> farmer_id, name |-> name, location |-> location,
                  contact_number |-> contact_number, kyc_id |-> kyc_id], fault)
    IN  [ret |-> ~u.raised, rows |-> u.rows]

get_farmer(rows, farmer_id) ==
    LET results == execute_query(rows, "farmer_id", farmer_id)
    IN  IF results # <<>> THEN results[1] ELSE None

create_batch(rows, batch_id, batch_type, geotag, farmer_id, fault) ==
    LET u == execute_update(rows, "batch_id",
                 [batch_id |-> batch_id, type |-> batch_type, geotag |-> geotag,
                  farmer_id |-> farmer_id, date |-> Now, time |-> Now], fault)
    IN  [ret |-> ~u.raised, rows |-> u.rows]

get_batch(rows, batch_id) ==
    LET results == execute_query(rows, "batch_id", batch_id)
    IN  IF results # <<>> THEN results[1] ELSE None

create_consumer(rows, consumer_id, consumer_name, verification, fault) ==
    LET u == execute_update(rows, "consumer_id",
                 [consumer_id |-> consumer_id, consumer_name |-> consumer_name,
                  verification |-> verification], fault)
    IN  [ret |-> ~u.raised, rows |-> u.rows]

create_order(rows, order_id, order_from, from_id, receiver, receiver_id, batch_id, quantity, price, fault) ==
    LET u == execute_update(rows, "order_id",
                 [order_id |-> order_id, order_from |-> order_from, from_id |-> from_id,
                  reciever |-> receiver, reciever_id |-> receiver_id,
                  batch_id |-> batch_id, quantity |-> quantity, price |-> price], fault)
    IN  [ret |-> ~u.raised, rows |-> u.rows]

create_rating_below5(rows, rating_id, consumer_id, farmer_id, rating, fault) ==
    IF ~(0 <= rating /\ rating < 5)
    THEN [ret |-> FALSE, rows |-> rows]
    ELSE LET u == execute_update(rows, "rating_id",
                      [rating_id |-> rating_id, consumer_id |-> consumer_id,
                       farmer_id |-> farmer_id, rating |-> rating], fault)
         IN  [ret |-> ~u.raised, rows |-> u.rows]

create_rating(rows, rating_id, consumer_id, farmer_id, rating, fault) ==
    IF ~(0 <= rating /\ rating <= 5)
    THEN [ret |-> FALSE, rows |-> rows]
    ELSE LET u == execute_update(rows, "rating_id",
                      [rating_id |-> rating_id, consumer_id |-> consumer_id,
                       farmer_id |-> farmer_id, rating |-> rating], fault)
         IN  [ret |-> ~u.raised, rows |-> u.rows]

(***************************************************************************)
(* The POST handlers of app.py.  data is the JSON body, a map from the     *)
(* fields it holds to their values.  data[...] of a field the body lacks   *)
(* raises KeyError while the arguments are evaluated, before the           *)
(* DatabaseManager is called: the request ends with HTTP 500 and no JSON   *)
(* of the handler.  Each handler gives the response and the table after.   *)
(***************************************************************************)
KeyError(rows) == [status |-> 500, json |-> FALSE, success |-> FALSE, rows |-> rows]
Jsonify(r) == [status |-> 200, json |-> TRUE, success |-> r.ret, rows |-> r.rows]

app_create_kyc_lenient(rows, data, fault) ==
    IF "kyc_id" \notin DOMAIN data THEN KeyError(rows)
    ELSE Jsonify(create_kyc(rows, data["kyc_id"],
                            DictGet(data, "document_number", ""), fault))

app_create_kyc(rows, data, fault) ==
    IF ~({"kyc_id", "document_number"} \subseteq DOMAIN data) THEN KeyError(rows)
    ELSE Jsonify(create_kyc(rows, data["kyc_id"], data["document_number"], fault))

app_create_farmer(rows, data, fault) ==
    IF ~({"farmer_id", "name", "kyc_id"} \subseteq DOMAIN data) THEN KeyError(rows)
    ELSE Jsonify(create_farmer(rows, data["farmer_id"], data["name"],
                               DictGet(data, "location", ""),
                               DictGet(data, "contact_number", ""),
                               data["kyc_id"], fault))

app_create_consumer(rows, data, fault) ==
    IF ~({"consumer_id", "consumer_name"} \subseteq DOMAIN data) THEN KeyError(rows)
    ELSE Jsonify(create_consumer(rows, data["consumer_id"], data["consumer_name"],
                                 DictGet(data, "verification", "Pending"), fault))

app_create_batch(rows, data, fault) ==
    IF ~({"batch_id", "type", "farmer_id"} \subseteq DOMAIN data) THEN KeyError(rows)
    ELSE Jsonify(create_batch(rows, data["batch_id"], data["type"],
                              DictGet(data, "geotag", ""), data["farmer_id"], fault))

app_create_order(rows, data, fault) ==
    IF ~({"order_id", "order_from", "from_id", "receiver", "receiver_id",
          "batch_id", "quantity", "price"} \subseteq DOMAIN data) THEN KeyError(rows)
    ELSE Jsonify(create_order(rows, data["order_id"], data["order_from"],
                              data["from_id"], data["receiver"], data["receiver_id"],
                              data["batch_id"], data["quantity"], data["price"], fault))

app_create_rating(rows, data, fault) ==
    IF ~({"rating_id", "consumer_id", "farmer_id", "rating"} \subseteq DOMAIN data)
    THEN KeyError(rows)
    ELSE Jsonify(create_rating(rows, data["rating_id"], data["consumer_id"],
                               data["farmer_id"], data["rating"], fault))

(***************************************************************************)
(* The bodies the requests of the model carry: every field with a value,   *)
(* less none or one of them.                                               *)
(***************************************************************************)
BodiesOf(fulls) ==
    UNION {{Without(full, drop) : drop \in Drops(DOMAIN full)} : full \in fulls}

KycBodies == BodiesOf({[kyc_id |-> i, document_number |-> "AADHAAR1"] : i \in Ids})
FarmerBodies ==
    BodiesOf({[farmer_id |-> i, name |-> "Alice", location |-> "Mumbai",
               contact_number |-> "+91", kyc_id |-> "id1"] : i \in Ids})
ConsumerBodies ==
    BodiesOf({[consumer_id |-> i, consumer_name |-> "Jane",
               verification |-> "Verified"] : i \in Ids})
BatchBodies ==
    BodiesOf({[batch_id |-> i, type |-> "Wheat", geotag |-> "19.07,72.87",
               farmer_id |-> "id1"] : i \in Ids})
OrderBodies ==
    BodiesOf({[order_id |-> i, order_from |-> "Consumer", from_id |-> "id1",
               receiver |-> "Farmer", receiver_id |-> "id1", batch_id |-> "id1",
               quantity |-> 100, price |-> 5000] : i \in Ids})
RatingBodies ==
    BodiesOf({[rating_id |-> i, consumer_id |-> "id1", farmer_id |-> "id1",
               rating |-> x] : i \in Ids, x \in RatingInputs})

\* what a request leaves in lastReq
Request(ep, data, idField, fault) ==
    [ep |-> ep,
     complete |-> Required(ep) \subseteq DOMAIN data,
     id |-> DictGet(data, idField, "absent"),
     rating |-> IF ep = "ratings" THEN DictGet(data, "rating", 0) ELSE 0,
     fault |-> fault]

Response(h) == [status |-> h.status, json |-> h.json, success |-> h.success]

\* the arguments of a create that returned true replace those held for the id
Remember(h, ep, id, args) ==
    IF h.json /\ h.success
    THEN {s \in submitted : ~(s.ep = ep /\ s.id = id)}
         \cup {[ep |-> ep, id |-> id, args |-> args]}
    ELSE submitted

PostKyc ==
    \E data \in KycBodies, fault \in BOOLEAN :
        LET h == app_create_kyc(KYC, data, fault) IN
        /\ TotalRows < MaxRows
        /\ KYC' = h.rows
        /\ httpResp' = Response(h)
        /\ lastReq' = Request("kyc", data, "kyc_id", fault)
        /\ UNCHANGED <<Farmers, Consumers, Batch, Orders, Ratings, submitted>>

PostFarmers ==
    \E data \in FarmerBodies, fault \in BOOLEAN :
        LET h == app_create_farmer(Farmers, data, fault) IN
        /\ TotalRows < MaxRows
        /\ Farmers' = h.rows
        /\ httpResp' = Response(h)
        /\ lastReq' = Request("farmers", data, "farmer_id", fault)
        /\ submitted' = Remember(h, "farmers", DictGet(data, "farmer_id", "absent"),
                            [farmer_id |-> DictGet(data, "farmer_id", "absent"),
                             name |-> DictGet(data, "name", "absent"),
                             location |-> DictGet(data, "location", ""),
                             contact_number |-> DictGet(data, "contact_number", ""),
                             kyc_id |-> DictGet(data, "kyc_id", "absent")])
        /\ UNCHANGED <<KYC, Consumers, Batch, Orders, Ratings>>

PostConsumers ==
    \E data \in ConsumerBodies, fault \in BOOLEAN :
        LET h == app_create_consumer(Consumers, data, fault) IN
        /\ TotalRows < MaxRows
        /\ Consumers' = h.rows
        /\ httpResp' = Response(h)
        /\ lastReq' = Request("consumers", data, "consumer_id", fault)
        /\ UNCHANGED <<KYC, Farmers, Batch, Orders, Ratings, submitted>>

PostBatches ==
    \E data \in BatchBodies, fault \in BOOLEAN :
        LET h == app_create_batch(Batch, data, fault) IN
        /\ TotalRows < MaxRows
        /\ Batch' = h.rows
        /\ httpResp' = Response(h)
        /\ lastReq' = Request("batches", data, "batch_id", fault)
        /\ submitted' = Remember(h, "batches", DictGet(data, "batch_id", "absent"),
                            [batch_id |-> DictGet(data, "batch_id", "absent"),
                             type |-> DictGet(data, "type", "absent"),
                             geotag |-> DictGet(data, "geotag", ""),
                             farmer_id |-> DictGet(data, "farmer_id", "absent")])
        /\ UNCHANGED <<KYC, Farmers, Consumers, Orders, Ratings>>

PostOrders ==
    \E data \in OrderBodies, fault \in BOOLEAN :
        LET h == app_create_order(Orders, data, fault) IN
        /\ TotalRows < MaxRows
        /\ Orders' = h.rows
        /\ httpResp' = Response(h)
        /\ lastReq' = Request("orders", data, "order_id", fault)
        /\ UNCHANGED <<KYC, Farmers, Consumers, Batch, Ratings, submitted>>

PostRatings ==
    \E data \in RatingBodies, fault \in BOOLEAN :
        LET h == app_create_rating(Ratings, data, fault) IN
        /\ TotalRows < MaxRows
        /\ Ratings' = h.rows
        /\ httpResp' = Response(h)
        /\ lastReq' = Request("ratings", data, "rating_id", fault)
        /\ UNCHANGED <<KYC, Farmers, Consumers, Batch, Orders, submitted>>

InitStore ==
    /\ KYC = <<>> /\ Farmers = <<>> /\ Consumers = <<>>
    /\ Batch = <<>> /\ Orders = <<>> /\ Ratings = <<>>
    /\ lastReq = [ep |-> "none", complete |-> TRUE, id |-> "absent",
                  rating |-> 0, fault |-> FALSE]
    /\ httpResp = [status |-> 0, json |-> FALSE, success |-> FALSE]
    /\ submitted = {}

NextStore ==
    \/ PostKyc
    \/ PostFarmers
    \/ PostConsumers
    \/ PostBatches
    \/ PostOrders
    \/ PostRatings



(***************************************************************************)
(* LEDGER FACADE SERVICE                                                   *)
(***************************************************************************)
VARIABLES
    privateKey,
        \* Config.PRIVATE_KEY is set
    registered, crops,
        \* the contract: the registered accounts, and the crops by id
        \* (crops[id + 1] is crop id; nextId is their number)
    txCount,
        \* the transactions of the service's account mined so far
    pending,
        \* the transactions the network has accepted and not yet mined
    receipts,
        \* the receipt of each mined transaction, by transaction hash
    rq,
        \* per worker thread, the request it handles: where its handler
        \* stands, its input, its local variables, its response, and the
        \* history of its ledger calls
    nreq
        \* requests started so far

ledger == <<registered, crops, txCount, pending, receipts>>
ledgerVars == <<privateKey, registered, crops, txCount, pending, receipts, rq, nreq>>
vars == <<KYC, Farmers, Consumers, Batch, Orders, Ratings, lastReq, httpResp,
          submitted, privateKey, registered, crops, txCount, pending, receipts,
          rq, nreq>>

\* the threads of the server
Threads == {1, 2}

(***************************************************************************)
(* Addresses.  The service's account and one other account, each in its    *)
(* checksum form and in lower case, and a string that is no address.       *)
(***************************************************************************)
ServiceAddr == "0xAA"
OtherAddr == "0xBB"
ZeroAddr == "0x00"
Accounts == {ServiceAddr, OtherAddr}
WellFormed == {"0xAA", "0xaa", "0xBB", "0xbb"}
Malformed == "0xZZ"
\* a field the body does not hold
Absent == "absent"
\* default_address without a private key
NoAddr == "None"

Lower_as_is(a) == a

\* str.lower()
Lower(a) ==
    CASE a = "0xAA" -> "0xaa"
      [] a = "0xBB" -> "0xbb"
      [] OTHER -> a

\* the account a well-formed address names
ToChecksum(a) ==
    CASE a = "0xaa" -> "0xAA"
      [] a = "0xbb" -> "0xBB"
      [] OTHER -> a

validate_address_any(address) == TRUE

\* validate_address: Web3.is_address(address) and Web3.to_checksum_address(address)
validate_address(address) == address \in WellFormed

\* account.address of the configured key, or None
default_address == IF privateKey THEN ServiceAddr ELSE NoAddr

(***************************************************************************)
(* The contract.  Its source is not among the source files; its functions  *)
(* are those of Config.CONTRACT_ABI and their behaviour is the spec's:     *)
(* ids assigned in sequence, a crop created by a registered sender and     *)
(* owned by it, transferred only by its owner to a registered account.     *)
(***************************************************************************)
nextId == Len(crops)

registeredUsers(a) == ToChecksum(a) \in registered

getCrop(id) ==
    IF id < Len(crops) THEN crops[id + 1]
    ELSE [id |-> 0, metadata |-> "", owner |-> ZeroAddr]

authenticate(id, a) == id < Len(crops) /\ crops[id + 1].owner = ToChecksum(a)

\* whether the contract's function runs to its end for the sender
Executes(tx) ==
    CASE tx.fn = "registerUser" -> tx.sender \notin registered
      [] tx.fn = "createCrop"   -> tx.sender \in registered
      [] tx.fn = "transferCrop" ->
            /\ tx.crop_id < Len(crops)
            /\ crops[tx.crop_id + 1].owner = tx.sender
            /\ ToChecksum(tx.to) \in registered

\* the transactions of the service's account carry its nonce; the network
\* takes one whose nonce is the account's next and is not taken by a
\* pending transaction
NetworkAccepts(tx) ==
    /\ tx.nonce = txCount
    /\ \A p \in pending : p.nonce # tx.nonce

(***************************************************************************)
(* A request in a thread.  A handler runs from one ledger call to the      *)
(* next; each step of a thread is one ledger call with the local code      *)
(* around it.  ok is the outcome of the call: FALSE when the call raises   *)
(* (the node is unreachable, the call reverts, web3 refuses an argument).  *)
(***************************************************************************)
NoResp == [status |-> 0, error |-> "", success |-> FALSE, tx_hash |-> -1,
           crop_id |-> -1, next_id |-> -1, flag |-> FALSE, crops |-> <<>>,
           total_found |-> -1]
NoInput == [address |-> Absent, to_address |-> Absent, crop_id |-> 0,
            metadata |-> Absent, limit |-> <<>>]
Idle == [pc |-> "idle", rid |-> 0, ep |-> "none", inp |-> NoInput, addr |-> Absent,
         next_id |-> -1, i |-> 0, bound |-> 0, owned |-> <<>>, nonce |-> -1,
         resp |-> NoResp, calls |-> 0, raised |-> FALSE, trace |-> <<>>]

\* the outcomes of a step of a handler: it returns a response, or goes on
\* to its next ledger call
Fail(status, error, calls) ==
    [next |-> "done", status |-> status, error |-> error, calls |-> calls]
Go(next, calls) == [next |-> next, status |-> 0, error |-> "", calls |-> calls]
Ok(calls) == [next |-> "done", status |-> 200, error |-> "", calls |-> calls]

\* data.get(field, default_address)
OrDefault(a) == IF a = Absent THEN default_address ELSE a

\* register_user, to its registration check
register_user(user_address_in, ok) ==
    LET user_address == OrDefault(user_address_in) IN
    IF user_address = NoAddr THEN Fail(400, "User address required", 0)
    ELSE IF ~validate_address(user_address)
    THEN Fail(400, "Invalid address format", 0)
    ELSE IF ~ok THEN Fail(500, "Failed to check registration status", 1)
    ELSE IF registeredUsers(user_address)
    THEN Fail(400, "User already registered", 1)
    ELSE Go("tx_begin", 1)

\* check_user_registration
check_user_registration(address, ok) ==
    IF ~validate_address(address) THEN Fail(400, "Invalid address format", 0)
    ELSE IF ~ok THEN Fail(500, "Failed to check registration", 1)
    ELSE Ok(1)

create_crop_unchecked(metadata, owner_address_in, ok) ==
    LET owner_address == OrDefault(owner_address_in) IN
    IF metadata = Absent THEN Fail(400, "Metadata is required", 0)
    ELSE IF owner_address = NoAddr THEN Fail(400, "Owner address required", 0)
    ELSE IF ~validate_address(owner_address)
    THEN Fail(400, "Invalid owner address format", 0)
    ELSE IF ~ok THEN Fail(500, "Failed to check registration", 1)
    ELSE Go("next_id", 1)

\* create_crop, to its registration check
create_crop(metadata, owner_address_in, ok) ==
    LET owner_address == OrDefault(owner_address_in) IN
    IF metadata = Absent THEN Fail(400, "Metadata is required", 0)
    ELSE IF owner_address = NoAddr THEN Fail(400, "Owner address required", 0)
    ELSE IF ~validate_address(owner_address)
    THEN Fail(400, "Invalid owner address format", 0)
    ELSE IF ~ok THEN Fail(500, "Failed to check registration", 1)
    ELSE IF ~registeredUsers(owner_address)
    THEN Fail(400, "User must be registered first", 1)
    ELSE Go("next_id", 1)

\* create_crop, its read of the next crop id
create_crop_next_id(ok, calls) ==
    IF ~ok THEN Fail(500, "Failed to get next ID", calls + 1)
    ELSE Go("tx_begin", calls + 1)

\* get_crop
get_crop(ok) ==
    IF ~ok THEN Fail(500, "Failed to get crop", 1) ELSE Ok(1)

\* authenticate_crop
authenticate_crop(owner_address, ok) ==
    IF owner_address = Absent THEN Fail(400, "Owner address is required", 0)
    ELSE IF ~validate_address(owner_address)
    THEN Fail(400, "Invalid owner address format", 0)
    ELSE IF ~ok THEN Fail(500, "Authentication failed", 1)
    ELSE Ok(1)

\* transfer_crop, to its check of the recipient
transfer_crop(to_address, from_address_in, ok) ==
    LET from_address == OrDefault(from_address_in) IN
    IF to_address = Absent THEN Fail(400, "Recipient address is required", 0)
    ELSE IF ~validate_address(to_address)
    THEN Fail(400, "Invalid recipient address format", 0)
    ELSE IF ~validate_address(from_address)
    THEN Fail(400, "Invalid sender address format", 0)
    ELSE IF ~ok THEN Fail(500, "Failed to check recipient registration", 1)
    ELSE IF ~registeredUsers(to_address)
    THEN Fail(400, "Recipient must be registered", 1)
    ELSE Go("owner_check", 1)

transfer_crop_verify_ownership_skipped(crop_id, from_address, ok, calls) ==
    IF ~ok THEN Fail(500, "Failed to verify ownership", calls + 1)
    ELSE Go("tx_begin", calls + 1)

\* transfer_crop, its check of the owner
transfer_crop_verify_ownership(crop_id, from_address, ok, calls) ==
    IF ~ok THEN Fail(500, "Failed to verify ownership", calls + 1)
    ELSE IF Lower(getCrop(crop_id).owner) # Lower(from_address)
    THEN Fail(403, "Only the owner can transfer this crop", calls + 1)
    ELSE Go("tx_begin", calls + 1)

get_next_crop_id_writing(ok) ==
    IF ~ok THEN Fail(500, "Failed to get next ID", 1) ELSE Go("tx_begin", 1)

\* get_next_crop_id
get_next_crop_id(ok) ==
    IF ~ok THEN Fail(500, "Failed to get next ID", 1) ELSE Ok(1)

Min(a, b) == IF a < b THEN a ELSE b

\* int(request.args.get('limit', 100))
LimitOf(limit_in) == IF limit_in = <<>> THEN 100 ELSE limit_in[1]

scan_bound_unlimited(next_id, limit_in) == next_id

\* range(min(next_id, limit)) with limit capped at 1000
scan_bound(next_id, limit_in) == Min(next_id, Min(LimitOf(limit_in), 1000))

\* get_crops_by_owner, to its read of the next crop id
get_crops_by_owner(address, limit_in, ok) ==
    IF ~validate_address(address) THEN Fail(400, "Invalid address format", 0)
    ELSE IF ~ok THEN Fail(500, "Failed to get crops by owner", 1)
    ELSE IF scan_bound(nextId, limit_in) <= 0 THEN Ok(1)
    ELSE Go("scan", 1)

(***************************************************************************)
(* handle_transaction, stage by stage: the check of the credential and the *)
(* build with the nonce fetched, the signing, the submission, the wait for *)
(* the receipt.  An exception at any stage ends it with HTTP 500.  event   *)
(* is what the stage adds to the request's trace, rpc whether it called    *)
(* the ledger.                                                             *)
(***************************************************************************)
TxStep(next, event, rpc) ==
    [next |-> next, status |-> 0, error |-> "", event |-> event, rpc |-> rpc]
TxReturn(status, error, event, rpc) ==
    [next |-> "done", status |-> status, error |-> error, event |-> event, rpc |-> rpc]

handle_transaction_late_key_check(stage, ok) ==
    CASE stage = "tx_begin" ->
            IF ~ok THEN TxReturn(500, "Transaction failed", "", 1)
            ELSE TxStep("tx_sign", "build", 1)
      [] stage = "tx_sign" ->
            IF ~privateKey THEN TxReturn(400, "Private key not configured", "", 0)
            ELSE TxStep("tx_send", "sign", 0)
      [] stage = "tx_send" ->
            IF ~ok THEN TxReturn(500, "Transaction failed", "submit_failed", 1)
            ELSE TxStep("tx_wait", "submit", 1)
      [] stage = "tx_wait" ->
            IF ~ok THEN TxReturn(500, "Transaction failed", "wait_failed", 1)
            ELSE TxReturn(200, "", "receipt", 1)

handle_transaction_no_wait(stage, ok) ==
    CASE stage = "tx_begin" ->
            IF ~privateKey THEN TxReturn(400, "Private key not configured", "", 0)
            ELSE IF ~ok THEN TxReturn(500, "Transaction failed", "", 1)
            ELSE TxStep("tx_sign", "build", 1)
      [] stage = "tx_sign" -> TxStep("tx_send", "sign", 0)
      [] stage = "tx_send" ->
            IF ~ok THEN TxReturn(500, "Transaction failed", "submit_failed", 1)
            ELSE TxReturn(200, "", "submit", 1)
      [] stage = "tx_wait" ->
            IF ~ok THEN TxReturn(500, "Transaction failed", "wait_failed", 1)
            ELSE TxReturn(200, "", "receipt", 1)

handle_transaction_retry(stage, ok) ==
    CASE stage = "tx_begin" ->
            IF ~privateKey THEN TxReturn(400, "Private key not configured", "", 0)
            ELSE IF ~ok THEN TxReturn(500, "Transaction failed", "", 1)
            ELSE TxStep("tx_sign", "build", 1)
      [] stage = "tx_sign" -> TxStep("tx_send", "sign", 0)
      [] stage = "tx_send" ->
            IF ~ok THEN TxStep("tx_send", "submit_failed", 1)
            ELSE TxStep("tx_wait", "submit", 1)
      [] stage = "tx_wait" ->
            IF ~ok THEN TxReturn(500, "Transaction failed", "wait_failed", 1)
            ELSE TxReturn(200, "", "receipt", 1)

handle_transaction_send_unchecked(stage, ok) ==
    CASE stage = "tx_begin" ->
            IF ~privateKey THEN TxReturn(400, "Private key not configured", "", 0)
            ELSE IF ~ok THEN TxReturn(500, "Transaction failed", "", 1)
            ELSE TxStep("tx_sign", "build", 1)
      [] stage = "tx_sign" -> TxStep("tx_send", "sign", 0)
      [] stage = "tx_send" -> TxStep("tx_wait", "submit", 1)
      [] stage = "tx_wait" ->
            IF ~ok THEN TxReturn(500, "Transaction failed", "wait_failed", 1)
            ELSE TxReturn(200, "", "receipt", 1)

handle_transaction(stage, ok) ==
    CASE stage = "tx_begin" ->
            IF ~privateKey THEN TxReturn(400, "Private key not configured", "", 0)
            ELSE IF ~ok THEN TxReturn(500, "Transaction failed", "", 1)
            ELSE TxStep("tx_sign", "build", 1)
      [] stage = "tx_sign" -> TxStep("tx_send", "sign", 0)
      [] stage = "tx_send" ->
            IF ~ok THEN TxReturn(500, "Transaction failed", "submit_failed", 1)
            ELSE TxStep("tx_wait", "submit", 1)
      [] stage = "tx_wait" ->
            IF ~ok THEN TxReturn(500, "Transaction failed", "wait_failed", 1)
            ELSE TxReturn(200, "", "receipt", 1)

(***************************************************************************)
(* The requests of the model.                                              *)
(***************************************************************************)
RegisterInputs == {Absent, "0xBB", Malformed}
StatusInputs == {"0xAA", Malformed}
MetadataInputs == {Absent, "wheat-lot-1"}
OwnerInputs == {Absent, "0xBB", Malformed}
AuthInputs == {Absent, "0xaa", Malformed}
ToInputs == {Absent, "0xAA", "0xBB", Malformed}
FromInputs == {Absent, "0xbb", Malformed}
EnumInputs == {"0xaa", Malformed}
LimitInputs == {<<>>, <<0>>, <<1>>}
CropIdInputs == {0}

\* no handler has returned without its thread having sent the response: the
\* sending is the thread's own and comes before any further step
Quiet == \A q \in Threads : rq[q].pc # "done"

\* a request goes to the first thread that is free
Free(r) == rq[r].pc = "idle"
Takes(r) ==
    /\ Quiet
    /\ nreq < MaxRequests
    /\ Free(r)
    /\ \A q \in Threads : q < r => ~Free(q)

\* the response is sent and the thread is free again
Respond(r) ==
    /\ rq[r].pc = "done"
    /\ rq' = [rq EXCEPT ![r] = Idle]
    /\ UNCHANGED <<privateKey, registered, crops, txCount, pending, receipts, nreq>>
    /\ UNCHANGED storeVars

ErrorResp(out) == [NoResp EXCEPT !.status = out.status, !.error = out.error]

\* jsonify of what handle_transaction returned, with the caller's members
TxResp(q, out) ==
    IF out.status = 200
    THEN [NoResp EXCEPT !.status = 200, !.success = TRUE, !.tx_hash = q.nonce,
                        !.crop_id = CASE q.ep = "create" -> q.next_id
                                      [] q.ep = "transfer" -> q.inp.crop_id
                                      [] OTHER -> -1]
    ELSE ErrorResp(out)

\* the thread after the first step of a handler; raised tells whether its
\* ledger call, if it made one, raised
Started(ep, inp, addr, out, ok, resp) ==
    [Idle EXCEPT !.pc = out.next, !.rid = nreq + 1, !.ep = ep, !.inp = inp,
                 !.addr = addr, !.calls = out.calls,
                 !.raised = (out.calls > 0 /\ ~ok),
                 !.resp = IF out.next # "done" THEN NoResp
                          ELSE IF out.status = 200 THEN resp ELSE ErrorResp(out)]

Begin(r, ep, inp, addr, out, ok, resp) ==
    /\ Takes(r)
    /\ rq' = [rq EXCEPT ![r] = Started(ep, inp, addr, out, ok, resp)]
    /\ nreq' = nreq + 1
    /\ UNCHANGED <<privateKey, registered, crops, txCount, pending, receipts>>
    /\ UNCHANGED storeVars

\* POST /api/v1/users/register
Register(r) ==
    \E a \in RegisterInputs, ok \in BOOLEAN :
        Begin(r, "register", [NoInput EXCEPT !.address = a], OrDefault(a),
              register_user(a, ok), ok, NoResp)

\* GET /api/v1/users/<address>/status
Status(r) ==
    \E a \in StatusInputs, ok \in BOOLEAN :
        Begin(r, "status", [NoInput EXCEPT !.address = a], a,
              check_user_registration(a, ok), ok,
              [NoResp EXCEPT !.status = 200, !.flag = registeredUsers(a)])

\* POST /api/v1/crops
CreateCrop(r) ==
    \E m \in MetadataInputs, a \in OwnerInputs, ok \in BOOLEAN :
        Begin(r, "create", [NoInput EXCEPT !.address = a, !.metadata = m],
              OrDefault(a), create_crop(m, a, ok), ok, NoResp)

\* GET /api/v1/crops/<crop_id>
GetCrop(r) ==
    \E id \in CropIdInputs, ok \in BOOLEAN :
        Begin(r, "get_crop", [NoInput EXCEPT !.crop_id = id], Absent, get_crop(ok), ok,
              [NoResp EXCEPT !.status = 200, !.crop_id = getCrop(id).id,
                             !.crops = <<getCrop(id)>>,
                             !.flag = getCrop(id).owner # ZeroAddr])

\* POST /api/v1/crops/<crop_id>/authenticate
Authenticate(r) ==
    \E id \in CropIdInputs, a \in AuthInputs, ok \in BOOLEAN :
        Begin(r, "authenticate", [NoInput EXCEPT !.crop_id = id, !.address = a], a,
              authenticate_crop(a, ok), ok,
              [NoResp EXCEPT !.status = 200, !.crop_id = id,
                             !.flag = authenticate(id, a)])

\* POST /api/v1/crops/<crop_id>/transfer
Transfer(r) ==
    \E id \in CropIdInputs, to \in ToInputs, from \in FromInputs, ok \in BOOLEAN :
        Begin(r, "transfer",
              [NoInput EXCEPT !.crop_id = id, !.to_address = to, !.address = from],
              OrDefault(from), transfer_crop(to, from, ok), ok, NoResp)

\* GET /api/v1/crops/next-id
NextCropId(r) ==
    \E ok \in BOOLEAN :
        Begin(r, "next_id", NoInput, Absent, get_next_crop_id(ok), ok,
              [NoResp EXCEPT !.status = 200, !.next_id = nextId])

\* GET /api/v1/crops/owner/<address>
CropsByOwner(r) ==
    \E a \in EnumInputs, l \in LimitInputs, ok \in BOOLEAN :
        /\ Takes(r)
        /\ LET out == get_crops_by_owner(a, l, ok)
               q == Started("by_owner", [NoInput EXCEPT !.address = a, !.limit = l], a,
                            out, ok, [NoResp EXCEPT !.status = 200, !.total_found = 0])
           IN  rq' = [rq EXCEPT ![r] =
                        IF out.next = "scan"
                        THEN [q EXCEPT !.next_id = nextId,
                                       !.bound = scan_bound(nextId, l)]
                        ELSE q]
        /\ nreq' = nreq + 1
        /\ UNCHANGED <<privateKey, registered, crops, txCount, pending, receipts>>
        /\ UNCHANGED storeVars

\* one turn of the loop of get_crops_by_owner: the lookup of crop i
ScanStep(r) ==
    \E ok \in BOOLEAN :
        LET q == rq[r]
            crop_data == getCrop(q.i)
            owned == IF ok /\ Lower(crop_data.owner) = Lower(q.addr)
                     THEN Append(q.owned, crop_data) ELSE q.owned
            last == q.i + 1 >= q.bound
        IN  /\ Quiet /\ q.pc = "scan"
            /\ rq' = [rq EXCEPT ![r] =
                        [q EXCEPT !.i = q.i + 1, !.owned = owned, !.calls = q.calls + 1,
                                  !.raised = ~ok,
                                  !.pc = IF last THEN "done" ELSE "scan",
                                  !.resp = IF last
                                           THEN [NoResp EXCEPT !.status = 200,
                                                    !.crops = owned,
                                                    !.total_found = Len(owned)]
                                           ELSE NoResp]]
            /\ UNCHANGED <<privateKey, registered, crops, txCount, pending, receipts, nreq>>
            /\ UNCHANGED storeVars

\* a later step of a handler that ends it or goes on
Continue(r, out, ok, resp) ==
    /\ rq' = [rq EXCEPT ![r] =
                [rq[r] EXCEPT !.pc = out.next, !.calls = out.calls, !.raised = ~ok,
                              !.resp = IF out.next = "done" THEN ErrorResp(out) ELSE resp]]
    /\ UNCHANGED <<privateKey, registered, crops, txCount, pending, receipts, nreq>>
    /\ UNCHANGED storeVars

\* create_crop: contract.functions.nextId().call()
CreateNextId(r) ==
    \E ok \in BOOLEAN :
        /\ Quiet /\ rq[r].pc = "next_id"
        /\ LET out == create_crop_next_id(ok, rq[r].calls) IN
           /\ rq' = [rq EXCEPT ![r] =
                       [rq[r] EXCEPT !.pc = out.next, !.calls = out.calls,
                                     !.raised = ~ok,
                                     !.next_id = IF out.next = "done" THEN -1 ELSE nextId,
                                     !.resp = IF out.next = "done" THEN ErrorResp(out)
                                              ELSE NoResp]]
           /\ UNCHANGED <<privateKey, registered, crops, txCount, pending, receipts, nreq>>
           /\ UNCHANGED storeVars

\* transfer_crop: contract.functions.getCrop(crop_id).call()
TransferOwnerCheck(r) ==
    \E ok \in BOOLEAN :
        /\ Quiet /\ rq[r].pc = "owner_check"
        /\ Continue(r, transfer_crop_verify_ownership(rq[r].inp.crop_id, rq[r].addr, ok,
                                                      rq[r].calls), ok, NoResp)

\* the transaction a request submits
TxOf(q) ==
    [fn |-> CASE q.ep = "register" -> "registerUser"
              [] q.ep = "create" -> "createCrop"
              [] q.ep = "transfer" -> "transferCrop",
     sender |-> default_address, nonce |-> q.nonce, by |-> q.rid,
     crop_id |-> q.inp.crop_id, to |-> q.inp.to_address, metadata |-> q.inp.metadata]

\* the thread after a stage of handle_transaction
AfterStage(q, out, ok) ==
    LET t == [q EXCEPT !.pc = out.next, !.calls = q.calls + out.rpc,
                       !.raised = (out.rpc > 0 /\ ~ok),
                       !.trace = IF out.event = "" THEN q.trace
                                 ELSE Append(q.trace, out.event)]
    IN  IF out.next = "done" THEN [t EXCEPT !.resp = TxResp(t, out)] ELSE t

\* the credential check, and build_transaction with the nonce fetched
TxBegin(r) ==
    \E ok \in BOOLEAN :
        /\ Quiet /\ rq[r].pc = "tx_begin"
        /\ LET out == handle_transaction("tx_begin", ok) IN
           rq' = [rq EXCEPT ![r] =
                    AfterStage([rq[r] EXCEPT !.nonce = IF out.event = "build"
                                                       THEN txCount ELSE -1], out, ok)]
        /\ UNCHANGED <<privateKey, registered, crops, txCount, pending, receipts, nreq>>
        /\ UNCHANGED storeVars

\* sign_transaction
TxSign(r) ==
    /\ Quiet /\ rq[r].pc = "tx_sign"
    /\ rq' = [rq EXCEPT ![r] = AfterStage(rq[r], handle_transaction("tx_sign", TRUE), TRUE)]
    /\ UNCHANGED <<privateKey, registered, crops, txCount, pending, receipts, nreq>>
    /\ UNCHANGED storeVars

\* send_raw_transaction: the network takes the transaction or the call raises
TxSend(r) ==
    \E reachable \in BOOLEAN :
        /\ Quiet /\ rq[r].pc = "tx_send"
        /\ LET tx == TxOf(rq[r])
               taken == reachable /\ NetworkAccepts(tx)
               out == handle_transaction("tx_send", taken)
           IN  /\ rq' = [rq EXCEPT ![r] = AfterStage(rq[r], out, taken)]
               /\ pending' = IF out.event = "submit" THEN pending \cup {tx} ELSE pending
        /\ UNCHANGED <<privateKey, registered, crops, txCount, receipts, nreq>>
        /\ UNCHANGED storeVars

\* wait_for_transaction_receipt(tx_hash, timeout=120): the receipt is there,
\* or the wait times out or raises
TxWait(r) ==
    \E ok \in BOOLEAN :
        /\ Quiet /\ rq[r].pc = "tx_wait"
        /\ ok => \E rc \in receipts : rc.tx_hash = rq[r].nonce /\ rc.by = rq[r].rid
        /\ rq' = [rq EXCEPT ![r] = AfterStage(rq[r], handle_transaction("tx_wait", ok), ok)]
        /\ UNCHANGED <<privateKey, registered, crops, txCount, pending, receipts, nreq>>
        /\ UNCHANGED storeVars

\* a block is mined: the pending transaction is executed, or reverted
\* (receipt status 0); created is the id the contract gave the crop of a
\* createCrop that ran
Mine ==
    \E tx \in pending :
        /\ Quiet
        /\ tx.nonce = txCount
        /\ pending' = pending \ {tx}
        /\ txCount' = txCount + 1
        /\ receipts' = receipts \cup
              {[tx_hash |-> tx.nonce, by |-> tx.by,
                status |-> IF Executes(tx) THEN 1 ELSE 0,
                created |-> IF Executes(tx) /\ tx.fn = "createCrop"
                            THEN nextId ELSE -1]}
        /\ IF ~Executes(tx) THEN UNCHANGED <<registered, crops>>
           ELSE CASE tx.fn = "registerUser" ->
                       /\ registered' = registered \cup {tx.sender}
                       /\ UNCHANGED crops
                  [] tx.fn = "createCrop" ->
                       /\ crops' = Append(crops, [id |-> Len(crops),
                                                  metadata |-> tx.metadata,
                                                  owner |-> tx.sender])
                       /\ UNCHANGED registered
                  [] tx.fn = "transferCrop" ->
                       /\ crops' = [crops EXCEPT ![tx.crop_id + 1].owner = ToChecksum(tx.to)]
                       /\ UNCHANGED registered
        /\ UNCHANGED <<privateKey, rq, nreq>>
        /\ UNCHANGED storeVars

\* the crops of a ledger that others have used before the facade starts:
\* none, or one that a registered account owns
InitCrops(owners) ==
    {<<>>} \cup {<<[id |-> 0, metadata |-> "seed", owner |-> o]>> : o \in owners}

Init ==
    /\ InitStore
    /\ privateKey \in BOOLEAN
    /\ registered \in SUBSET Accounts
    /\ crops \in InitCrops(registered)
    /\ txCount = 0
    /\ pending = {}
    /\ receipts = {}
    /\ rq = [r \in Threads |-> Idle]
    /\ nreq = 0

Next ==
    \/ \E r \in Threads :
          \/ Register(r)
          \/ Status(r)
          \/ CreateCrop(r)
          \/ GetCrop(r)
          \/ Authenticate(r)
          \/ Transfer(r)
          \/ NextCropId(r)
          \/ CropsByOwner(r)
          \/ ScanStep(r)
          \/ CreateNextId(r)
          \/ TransferOwnerCheck(r)
          \/ TxBegin(r)
          \/ TxSign(r)
          \/ TxSend(r)
          \/ TxWait(r)
          \/ Respond(r)
    \/ Mine

Spec == Init /\ [][Next]_vars

\* the record store alone: the ledger facade is another process
InitStoreOnly ==
    /\ InitStore
    /\ privateKey = FALSE /\ registered = {} /\ crops = <<>> /\ txCount = 0
    /\ pending = {} /\ receipts = {} /\ rq = [r \in Threads |-> Idle] /\ nreq = 0

SpecStore == InitStoreOnly /\ [][NextStore /\ UNCHANGED ledgerVars]_vars

(***************************************************************************)
(* Claims about the record store, checked under SpecStore.  In a step of   *)
(* SpecStore the primed lastReq and httpResp are the request handled by    *)
(* the step and its response; the unprimed tables are those before it.     *)
(***************************************************************************)

\* C1: a ratings request that carries every field gets {"success": true}
\* exactly when 0 <= rating <= 5 and the store accepts the insert, and then
\* its row is the one row added; for a rating outside [0,5] the answer is
\* {"success": false} and the Ratings table is as before.
C1_RatingAcceptedIffInRange ==
    [][ (lastReq'.ep = "ratings" /\ lastReq'.complete) =>
          LET q == lastReq'
              inRange == 0 <= q.rating /\ q.rating <= 5
              accepted == StoreAccepts(Ratings, "rating_id",
                                       [rating_id |-> q.id], q.fault)
          IN  /\ httpResp'.json
              /\ httpResp'.success <=> (inRange /\ accepted)
              /\ IF inRange /\ accepted
                 THEN /\ Len(Ratings') = Len(Ratings) + 1
                      /\ SubSeq(Ratings', 1, Len(Ratings)) = Ratings
                      /\ Ratings'[Len(Ratings')].rating_id = q.id
                      /\ Ratings'[Len(Ratings')].rating = q.rating
                 ELSE Ratings' = Ratings
      ]_storeVars

\* C1's case: one rating was stored, and the request after it, carrying a
\* rating above 5, was answered {"success": false}
C1_Witness ==
    /\ Len(Ratings) = 1 /\ Ratings[1].rating = 5
    /\ lastReq.ep = "ratings" /\ lastReq.complete /\ lastReq.rating = 6
    /\ ~lastReq.fault /\ lastReq.id # Ratings[1].rating_id
    /\ httpResp.json /\ ~httpResp.success

\* C2: a POST create request whose body lacks a required field leaves every
\* table as it was, and its response is an error, never {"success": true}.
C2_MissingFieldNoMutation ==
    [][ (lastReq'.ep \in {"kyc", "farmers", "consumers", "batches", "orders", "ratings"}
         /\ ~lastReq'.complete) =>
          /\ tables' = tables
          /\ httpResp'.status # 200
          /\ ~(httpResp'.json /\ httpResp'.success)
      ]_storeVars

\* C2's case: a request without its document number arrived at a store that
\* would have taken the row, and was refused
C2_Witness ==
    /\ lastReq.ep = "kyc" /\ ~lastReq.complete /\ lastReq.id \in Ids
    /\ ~lastReq.fault /\ ~HasKey(KYC, "kyc_id", lastReq.id)
    /\ httpResp.status = 500

\* the row get_* gives holds every submitted field with the submitted value
SameFields(got, args) == got # None /\ \A f \in DOMAIN args : got[f] = args[f]
Created(ep, id) == \E s \in submitted : s.ep = ep /\ s.id = id

Mutating == {"register", "create", "transfer"}
Done(q) == q.pc = "done"
IsError(q) == q.resp.status \in {400, 403, 500} /\ ~q.resp.success /\ q.resp.error # ""

\* nothing was built, signed or submitted for the request
NoTransaction(q, pool, mined) ==
    /\ q.trace = <<>>
    /\ q.nonce = -1
    /\ \A tx \in pool : tx.by # q.rid
    /\ \A rc \in mined : rc.by # q.rid

\* the sender of a transfer is not the owner the ledger has for the crop
NotOwner(q) == Lower(getCrop(q.inp.crop_id).owner) # Lower(q.addr)

\* C4 as stated: a transfer request whose from_address is not the crop's
\* owner, compared without case, is answered 403, and no transaction is
\* built, signed or submitted for it.
C4_Original ==
    \A r \in Threads :
        (Done(rq[r]) /\ rq[r].ep = "transfer" /\ NotOwner(rq[r])) =>
            /\ rq[r].resp.status = 403
            /\ NoTransaction(rq[r], pending, receipts)

\* C4, amended: a transfer request whose from_address is not the crop's
\* owner, compared without case, ends with an error and no transaction is
\* built, signed or submitted for it.  The error is 400 when to_address is
\* missing, an address is malformed or the recipient is not registered, 500
\* when a ledger read raises, and 403 when the request has reached the
\* ownership check and the read of the crop succeeded.
C4_TransferNotOwnerRejected ==
    [][ \A r \in Threads :
          LET q == rq[r]
              t == rq'[r]
              to == t.inp.to_address
              reaches == /\ to # Absent /\ validate_address(to)
                         /\ validate_address(t.addr)
                         /\ ~t.raised /\ registeredUsers(to)
          IN  (t.ep = "transfer" /\ q.pc \in {"idle", "owner_check"} /\ t.pc # q.pc
               /\ NotOwner(t)) =>
                 /\ NoTransaction(t, pending', receipts')
                 /\ IF q.pc = "idle" /\ reaches THEN t.pc = "owner_check"
                    ELSE /\ Done(t) /\ IsError(t)
                         /\ t.resp.status = IF t.raised THEN 500
                                            ELSE IF q.pc = "idle" THEN 400 ELSE 403
      ]_vars

\* C4's case: the crop is the service account's, the request names the
\* other account as sender and a registered recipient, and is answered 403
C4_Witness ==
    \E r \in Threads :
        /\ Done(rq[r]) /\ rq[r].ep = "transfer"
        /\ rq[r].inp.address = "0xbb" /\ rq[r].inp.to_address = "0xBB"
        /\ getCrop(rq[r].inp.crop_id).owner = ServiceAddr
        /\ rq[r].resp.status = 403 /\ rq[r].calls = 2

\* C5: when the precondition a mutating request reads from the ledger does
\* not hold (the user is registered already, on register; the owner is not
\* registered, on create: 400 "User must be registered first"; the
\* recipient is not registered or the sender is not the owner, on
\* transfer), the request ends with an error at that check and no
\* transaction is built, signed or submitted for it.
C5_FailedPreconditionNoTransaction ==
    [][ \A r \in Threads :
          LET q == rq[r]
              t == rq'[r]
              first == q.pc = "idle" /\ t.pc # "idle" /\ t.calls = 1
              fails ==
                \/ first /\ t.ep = "register" /\ registeredUsers(t.addr)
                \/ first /\ t.ep = "create" /\ ~registeredUsers(t.addr)
                \/ first /\ t.ep = "transfer" /\ ~registeredUsers(t.inp.to_address)
                \/ q.pc = "owner_check" /\ t.pc # q.pc /\ NotOwner(t)
              error ==
                CASE q.pc = "owner_check" -> "Only the owner can transfer this crop"
                  [] t.ep = "register" -> "User already registered"
                  [] t.ep = "create" -> "User must be registered first"
                  [] t.ep = "transfer" -> "Recipient must be registered"
          IN  fails =>
                 /\ Done(t) /\ IsError(t)
                 /\ NoTransaction(t, pending', receipts')
                 /\ ~t.raised => /\ t.resp.error = error
                                 /\ t.resp.status = IF q.pc = "owner_check" THEN 403
                                                    ELSE 400
      ]_vars

\* C5's case: the service holds a key, its account is not registered, and a
\* create request that names no owner is answered 400
C5_Witness ==
    \E r \in Threads :
        /\ Done(rq[r]) /\ rq[r].ep = "create"
        /\ privateKey /\ ServiceAddr \notin registered
        /\ rq[r].inp.address = Absent /\ rq[r].inp.metadata # Absent
        /\ rq[r].resp.status = 400
        /\ rq[r].resp.error = "User must be registered first"
        /\ rq[r].trace = <<>>

\* the request enumerates the crops of a well-formed address with limit=0
LimitZero(q) ==
    q.ep = "by_owner" /\ q.inp.limit = <<0>> /\ validate_address(q.inp.address)

\* C6 as stated: owner enumeration with limit=0 and a well-formed address
\* returns an empty crop list with total_found 0 whatever the ledger holds
\* and whatever the outcome of the ledger reads.
C6_Original ==
    \A r \in Threads :
        (Done(rq[r]) /\ LimitZero(rq[r])) =>
            /\ rq[r].resp.status = 200
            /\ rq[r].resp.crops = <<>>
            /\ rq[r].resp.total_found = 0

\* C6, amended: owner enumeration with limit=0 and a well-formed address
\* reads the next id and no crop; when that read succeeds it returns an
\* empty crop list with total_found 0 whatever the ledger holds, and when
\* the read raises it answers 500.
C6_LimitZeroEmpty ==
    \A r \in Threads :
        LimitZero(rq[r]) =>
            /\ Done(rq[r]) /\ rq[r].calls = 1
            /\ IF rq[r].raised
               THEN /\ rq[r].resp.status = 500
                    /\ rq[r].resp.error = "Failed to get crops by owner"
               ELSE /\ rq[r].resp.status = 200
                    /\ rq[r].resp.crops = <<>>
                    /\ rq[r].resp.total_found = 0

\* C6's case: the ledger holds a crop of the address asked for, and the
\* enumeration with limit=0 returned no crop
C6_Witness ==
    \E r \in Threads :
        /\ Done(rq[r]) /\ LimitZero(rq[r]) /\ rq[r].inp.address = "0xaa"
        /\ nextId >= 1 /\ crops[1].owner = ServiceAddr
        /\ rq[r].resp.status = 200 /\ rq[r].resp.total_found = 0

\* an address field of the request is malformed
MalformedField(q) == q.inp.address = Malformed \/ q.inp.to_address = Malformed
InvalidAddress ==
    {"Invalid address format", "Invalid owner address format",
     "Invalid recipient address format", "Invalid sender address format"}

\* C7 as stated: a request with a malformed address field fails at once
\* with an invalid-address error, HTTP 400, and makes no ledger call.
C7_Original ==
    \A r \in Threads :
        MalformedField(rq[r]) =>
            /\ Done(rq[r]) /\ rq[r].calls = 0
            /\ rq[r].resp.status = 400
            /\ rq[r].resp.error \in InvalidAddress

\* C7, amended: a request with a malformed address field fails at once
\* with HTTP 400 and makes no ledger call, read or write.  The error is the
\* invalid-address one, unless a required field the handler looks for
\* before the address is missing (metadata on create, to_address on
\* transfer): then the error names that field.
C7_MalformedAddressRejected ==
    \A r \in Threads :
        LET q == rq[r] IN
        MalformedField(q) =>
            /\ Done(q) /\ q.calls = 0 /\ ~q.raised
            /\ NoTransaction(q, pending, receipts)
            /\ q.resp.status = 400 /\ ~q.resp.success
            /\ q.resp.error =
                 CASE q.ep = "create" /\ q.inp.metadata = Absent -> "Metadata is required"
                   [] q.ep = "transfer" /\ q.inp.to_address = Absent ->
                         "Recipient address is required"
                   [] q.ep = "transfer" /\ q.inp.to_address = Malformed ->
                         "Invalid recipient address format"
                   [] q.ep = "transfer" -> "Invalid sender address format"
                   [] q.ep \in {"create", "authenticate"} -> "Invalid owner address format"
                   [] OTHER -> "Invalid address format"

\* C7's case: a transfer to a registered account of a crop the ledger
\* holds, with a malformed from_address, ended with 400 before any call
C7_Witness ==
    \E r \in Threads :
        /\ Done(rq[r]) /\ rq[r].ep = "transfer"
        /\ rq[r].inp.to_address = "0xBB" /\ OtherAddr \in registered
        /\ rq[r].inp.crop_id < nextId
        /\ rq[r].inp.address = Malformed
        /\ rq[r].resp.error = "Invalid sender address format"
        /\ rq[r].calls = 0

\* the ledger reads a mutating handler makes before handle_transaction
ChecksBefore(ep) == IF ep = "register" THEN 1 ELSE 2

\* C8: without a private key no request builds, signs or submits a
\* transaction, and every mutating request ends with an error; the one
\* that passes its checks ends at the credential check, before the nonce
\* is fetched and the transaction is built.
C8_NoCredentialNoTransaction ==
    ~privateKey =>
        /\ pending = {} /\ receipts = {} /\ txCount = 0
        /\ \A r \in Threads :
              LET q == rq[r] IN
              /\ NoTransaction(q, pending, receipts)
              /\ q.pc \notin {"tx_sign", "tx_send", "tx_wait"}
              /\ q.ep \in Mutating =>
                    /\ q.calls <= ChecksBefore(q.ep)
                    /\ Done(q) => IsError(q)
                    /\ (Done(q) /\ q.resp.error = "Private key not configured") =>
                          q.resp.status = 400 /\ q.calls = ChecksBefore(q.ep)

\* C8's case: a transfer by the crop's owner to a registered account
\* passed both checks and ended at the credential check
C8_Witness ==
    \E r \in Threads :
        /\ ~privateKey
        /\ Done(rq[r]) /\ rq[r].ep = "transfer" /\ rq[r].calls = 2
        /\ ~NotOwner(rq[r])
        /\ rq[r].resp.status = 400
        /\ rq[r].resp.error = "Private key not configured"

TxOrder == <<"build", "sign", "submit", "receipt">>
IsPrefix(s, t) == Len(s) <= Len(t) /\ s = SubSeq(t, 1, Len(s))
Events(q) == {q.trace[i] : i \in DOMAIN q.trace}

\* C9: a request's transaction is built with the nonce fetched, then
\* signed, then submitted, then its receipt is waited for, in that order;
\* the success result (status 200, success true, the transaction's hash)
\* is returned only once the receipt has been obtained.
C9_PipelineOrder ==
    \A r \in Threads :
        LET q == rq[r] IN
        /\ \/ IsPrefix(q.trace, TxOrder)
           \/ q.trace = <<"build", "sign", "submit_failed">>
           \/ q.trace = <<"build", "sign", "submit", "wait_failed">>
        /\ "build" \in Events(q) <=> q.nonce >= 0
        /\ q.trace # <<>> => q.ep \in Mutating /\ privateKey
        /\ "submit" \in Events(q) =>
              \/ \E tx \in pending : tx.by = q.rid /\ tx.nonce = q.nonce
              \/ \E rc \in receipts : rc.by = q.rid /\ rc.tx_hash = q.nonce
        /\ q.resp.success =>
              /\ Done(q) /\ q.trace = TxOrder
              /\ q.resp.status = 200 /\ q.resp.tx_hash = q.nonce
              /\ \E rc \in receipts : rc.by = q.rid /\ rc.tx_hash = q.nonce
        /\ (Done(q) /\ q.ep \in Mutating /\ q.resp.status = 200) => q.resp.success

\* C9's case: a create request went through the four stages and returned
\* the success result
C9_Witness ==
    \E r \in Threads :
        /\ Done(rq[r]) /\ rq[r].ep = "create"
        /\ rq[r].resp.success /\ rq[r].resp.status = 200
        /\ rq[r].trace = TxOrder

\* the submissions a request has made, failed ones included
Submissions(q) == {i \in DOMAIN q.trace : q.trace[i] \in {"submit", "submit_failed"}}
Last(s) == s[Len(s)]

\* what C10 says of a request at any moment
AtMostOnce(q, pool, mined) ==
    /\ Cardinality(Submissions(q)) <= 1
    /\ Cardinality({tx \in pool : tx.by = q.rid}) +
       Cardinality({rc \in mined : rc.by = q.rid}) <= 1
    /\ (q.trace # <<>> /\ Last(q.trace) \in {"submit_failed", "wait_failed"}) =>
          /\ Done(q)
          /\ q.resp.status = 500 /\ ~q.resp.success
    /\ "submit_failed" \in Events(q) =>
          /\ \A tx \in pool : tx.by # q.rid
          /\ \A rc \in mined : rc.by # q.rid

\* C10: nothing is retried.  A mutating request submits at most one
\* transaction; when the submission fails, or the wait for the receipt
\* fails or times out, the request ends with HTTP 500 and submits nothing
\* further; and the step in which a submission fails, the precondition
\* checks having passed, leaves the ledger as it was.
C10_NothingRetried ==
    [][ \A r \in Threads :
          /\ AtMostOnce(rq'[r], pending', receipts')
          /\ ("submit_failed" \in Events(rq'[r]) /\ "submit_failed" \notin Events(rq[r]))
                => ledger' = ledger
      ]_vars

\* C10's case: a request passed its checks, its transaction was built and
\* signed, the submission failed and the request ended with 500
C10_Witness ==
    \E r \in Threads :
        /\ Done(rq[r]) /\ rq[r].ep = "register"
        /\ rq[r].trace = <<"build", "sign", "submit_failed">>
        /\ rq[r].resp.status = 500
        /\ pending = {} /\ receipts = {}

\* the transactions the network has taken, pending or mined, by nonce
Taken(n) == {tx.by : tx \in {p \in pending : p.nonce = n}} \cup
            {rc.by : rc \in {m \in receipts : m.tx_hash = n}}

\* C11: two mutating requests in flight at once may hold the same nonce,
\* each having fetched it before the other submitted.  Then the network
\* takes the transaction of at most one of them; the submission of the
\* other is rejected and its request ends with an error (HTTP 500).
C11_SameNonceOneAccepted ==
    /\ \A n \in 0 .. MaxRequests : Cardinality(Taken(n)) <= 1
    /\ \A r1, r2 \in Threads :
          LET q1 == rq[r1]
              q2 == rq[r2]
          IN  (r1 # r2 /\ q1.nonce >= 0 /\ q1.nonce = q2.nonce) =>
                 /\ ~("submit" \in Events(q1) /\ "submit" \in Events(q2))
                 /\ (Len(q1.trace) >= 3 /\ Len(q2.trace) >= 3) =>
                       "submit_failed" \in Events(q1) \/ "submit_failed" \in Events(q2)
                 /\ "submit_failed" \in Events(q1) =>
                       /\ Done(q1) /\ IsError(q1) /\ q1.resp.status = 500
                       /\ q1.rid \notin Taken(q1.nonce)

\* C11's case: two requests fetched nonce 0, the first one's transaction is
\* pending and the second one's submission was rejected
C11_Witness ==
    \E r1, r2 \in Threads :
        /\ r1 # r2 /\ rq[r1].nonce = 0 /\ rq[r2].nonce = 0
        /\ rq[r1].trace = <<"build", "sign", "submit">>
        /\ \E tx \in pending : tx.by = rq[r1].rid /\ tx.nonce = 0
        /\ Done(rq[r2]) /\ rq[r2].trace = <<"build", "sign", "submit_failed">>
        /\ rq[r2].resp.status = 500

ReadOnly == {"status", "get_crop", "authenticate", "next_id", "by_owner"}

\* C12: a request to a read-only endpoint (user status, crop lookup,
\* authenticate, next id, owner enumeration) never builds, signs or submits
\* a transaction, and no step of it changes the ledger: the registered
\* users, the crops and the next id, the account's nonce, the pending and
\* the mined transactions are after the step what they were before it.
C12_ReadOnlyLeavesLedger ==
    [][ \A r \in Threads :
          (rq'[r].ep \in ReadOnly /\ rq'[r] # rq[r]) =>
              /\ ledger' = ledger
              /\ nextId' = nextId
              /\ NoTransaction(rq'[r], pending', receipts')
              /\ rq'[r].pc \in {"done", "scan"}
      ]_vars

\* C12's case: the second of two read-only requests, an authenticate of a
\* crop by its owner, returned true, and the account has sent nothing
C12_Witness ==
    \E r \in Threads :
        /\ nreq = 2 /\ txCount = 0 /\ pending = {} /\ receipts = {}
        /\ Done(rq[r]) /\ rq[r].ep = "authenticate"
        /\ rq[r].resp.status = 200 /\ rq[r].resp.flag
        /\ rq[r].calls = 1 /\ crops # <<>>

(***************************************************************************)
(* Further claims about the record store, checked under SpecStore.         *)
(***************************************************************************)
Entities == {"kyc", "farmers", "consumers", "batches", "orders", "ratings"}
TableOf(ep) ==
    CASE ep = "kyc" -> KYC
      [] ep = "farmers" -> Farmers
      [] ep = "consumers" -> Consumers
      [] ep = "batches" -> Batch
      [] ep = "orders" -> Orders
      [] ep = "ratings" -> Ratings
KeyOf(ep) ==
    CASE ep = "kyc" -> "kyc_id"
      [] ep = "farmers" -> "farmer_id"
      [] ep = "consumers" -> "consumer_id"
      [] ep = "batches" -> "batch_id"
      [] ep = "orders" -> "order_id"
      [] ep = "ratings" -> "rating_id"

\* the request reached the insert of its create_* method
ReachesInsert(q) ==
    /\ q.ep \in Entities /\ q.complete
    /\ q.ep = "ratings" => (0 <= q.rating /\ q.rating <= 5)

\* C13: when the store rejects the insert of a create_* (a second create
\* with an identifier the table holds, or any other failure of the store),
\* the method returns false to its caller, which answers {"success":
\* false} and not an error of the server, and every table is as it was;
\* when the store accepts the insert the method returns true and its table
\* has exactly one row more, the row of the request, the others none.
C13_RejectedInsertReturnsFalse ==
    [][ \A ep \in Entities :
          (ReachesInsert(lastReq') /\ lastReq'.ep = ep) =>
             LET before == TableOf(ep)
                 after == TableOf(ep)'
                 accepted == ~lastReq'.fault /\ ~HasKey(before, KeyOf(ep), lastReq'.id)
             IN  /\ httpResp'.json /\ httpResp'.status = 200
                 /\ httpResp'.success <=> accepted
                 /\ IF accepted
                    THEN /\ Len(after) = Len(before) + 1
                         /\ SubSeq(after, 1, Len(before)) = before
                         /\ after[Len(after)][KeyOf(ep)] = lastReq'.id
                         /\ \A e \in Entities \ {ep} : TableOf(e)' = TableOf(e)
                    ELSE tables' = tables
      ]_storeVars

\* C13's case: a second create of a KYC record with the identifier of the
\* one stored was answered {"success": false}, and the one row is there
C13_Witness ==
    /\ Len(KYC) = 1
    /\ lastReq.ep = "kyc" /\ lastReq.complete /\ ~lastReq.fault
    /\ lastReq.id = KYC[1].kyc_id
    /\ httpResp.json /\ httpResp.status = 200 /\ ~httpResp.success

(***************************************************************************)
(* The GET listings of app.py: db.execute_query("SELECT * FROM t LIMIT     *)
(* 10") and jsonify of its rows.  The statement has no ORDER BY: which     *)
(* ten rows of a larger table it gives is the engine's choice; they come   *)
(* in the order of the table.  The service has no endpoint that writes to  *)
(* Aggregators, Manufacturer or Inspection.                                *)
(***************************************************************************)
ListLimit == 10
Listed == Entities \cup {"aggregators", "manufacturers", "inspections"}
ListedTable(e) == IF e \in Entities THEN TableOf(e) ELSE <<>>

\* the rows of a table at a set of positions, in the table's order
Pick(rows, P) ==
    LET idx == SelectSeq([i \in 1 .. Len(rows) |-> i], LAMBDA i : i \in P)
    IN  [k \in 1 .. Len(idx) |-> rows[idx[k]]]

Listings_unlimited(rows) == {rows}

\* what "SELECT * FROM t LIMIT 10" may give
Listings(rows) ==
    {Pick(rows, P) : P \in {Q \in SUBSET (1 .. Len(rows)) :
                               Cardinality(Q) = Min(ListLimit, Len(rows))}}

\* get_kyc .. get_ratings: the handler of GET /<entity>
Listing(e) ==
    \E rows \in Listings(ListedTable(e)) :
        /\ httpResp' = [status |-> 200, json |-> TRUE, success |-> FALSE, rows |-> rows]
        /\ lastReq' = [ep |-> "list", entity |-> e, complete |-> TRUE, id |-> "absent",
                       rating |-> 0, fault |-> FALSE]
        /\ UNCHANGED <<KYC, Farmers, Consumers, Batch, Orders, Ratings, submitted>>

get_kyc == Listing("kyc")
get_farmers == Listing("farmers")
get_consumers == Listing("consumers")
get_aggregators == Listing("aggregators")
get_manufacturers == Listing("manufacturers")
get_batches == Listing("batches")
get_inspections == Listing("inspections")
get_orders == Listing("orders")
get_ratings == Listing("ratings")

\* identifiers of farmers beyond those of Ids
BulkIds == <<"f01", "f02", "f03", "f04", "f05", "f06", "f07", "f08", "f09", "f10",
             "f11", "f12", "f13">>
BulkArgs(i) == [farmer_id |-> BulkIds[i], name |-> "farmer", location |-> "",
                contact_number |-> "", kyc_id |-> "k1"]

\* the Farmers table after POST /farmers for the first n of BulkIds in turn
RECURSIVE CreateFarmers(_, _)
CreateFarmers(rows, n) ==
    IF n = 0 THEN rows
    ELSE app_create_farmer(CreateFarmers(rows, n - 1),
                           [f \in {"farmer_id", "name", "kyc_id"} |-> BulkArgs(n)[f]],
                           FALSE).rows

\* a run of n POST /farmers into an empty table, each with a new identifier
PostFarmersMany ==
    \E n \in 1 .. MaxBulk :
        LET h == app_create_farmer(CreateFarmers(Farmers, n - 1),
                     [f \in {"farmer_id", "name", "kyc_id"} |-> BulkArgs(n)[f]], FALSE)
        IN  /\ Farmers = <<>>
            /\ Farmers' = h.rows
            /\ httpResp' = Response(h)
            /\ lastReq' = [ep |-> "farmers", complete |-> TRUE, id |-> BulkIds[n],
                           rating |-> 0, fault |-> FALSE]
            /\ submitted' = submitted \cup
                   {[ep |-> "farmers", id |-> BulkIds[i], args |-> BulkArgs(i)] :
                       i \in 1 .. n}
            /\ UNCHANGED <<KYC, Consumers, Batch, Orders, Ratings>>

\* the listings with the creates of three of the entities; the creates of
\* the others differ from these in the table and the columns only
NextListing ==
    \/ PostKyc
    \/ PostFarmers
    \/ PostBatches
    \/ PostFarmersMany
    \/ get_kyc
    \/ get_farmers
    \/ get_consumers
    \/ get_aggregators
    \/ get_manufacturers
    \/ get_batches
    \/ get_inspections
    \/ get_orders
    \/ get_ratings

\* the record store with its listings
SpecListing == InitStoreOnly /\ [][NextListing /\ UNCHANGED ledgerVars]_vars

LimitAsked(q) == IF q.inp.limit = <<>> THEN 100 ELSE q.inp.limit[1]
\* [0, min(next_id, min(L, 1000))) ends here
ScanEnd(next_id, L) == Min(next_id, Min(L, 1000))
SameAccount(a, b) == ToChecksum(a) = ToChecksum(b)
Ascending(cs) == \A k, l \in 1 .. Len(cs) : k < l => cs[k].id < cs[l].id

ReceiptsOf(q) == {rc \in receipts : rc.by = q.rid}

\* C16: the crop_id of a successful create-crop response is the id the
\* ledger gave to the crop that the request's own transaction created,
\* also when create-crop requests run at the same time; so no two
\* successful responses carry the same crop_id.
C16_CropIdIsAssignedId ==
    \A r \in Threads :
        (Done(rq[r]) /\ rq[r].ep = "create" /\ rq[r].resp.success) =>
            \E rc \in ReceiptsOf(rq[r]) :
                /\ rc.status = 1
                /\ rc.created = rq[r].resp.crop_id

\* C16 fails: two create-crop requests both read next id 0 before the
\* transaction of either was mined; the second one's crop got id 1 from
\* the ledger and its response says crop_id 0, as the first one's did
C16_Witness ==
    \E r \in Threads :
        /\ Done(rq[r]) /\ rq[r].ep = "create" /\ rq[r].resp.success
        /\ rq[r].resp.crop_id = 0
        /\ \E rc \in ReceiptsOf(rq[r]) : rc.status = 1 /\ rc.created = 1
        /\ \E rc \in receipts : rc.by # rq[r].rid /\ rc.status = 1 /\ rc.created = 0
        /\ crops[1].metadata = "wheat-lot-1"

\* C17: after a transfer request has returned success for crop C with
\* to_address T, the ledger's owner of C is T, whatever from_address
\* passed the ownership check, the signing account's or another's; a
\* transfer the ledger did not apply is never answered with success.
C17_TransferSuccessMeansOwner ==
    \A r \in Threads :
        (Done(rq[r]) /\ rq[r].ep = "transfer" /\ rq[r].resp.success) =>
            /\ getCrop(rq[r].inp.crop_id).owner = ToChecksum(rq[r].inp.to_address)
            /\ \E rc \in ReceiptsOf(rq[r]) : rc.status = 1

\* C17 fails: the crop is the other account's, the request names that
\* account as sender and passes the ownership check, the transaction is
\* signed by the service's account and reverted, and the response is the
\* success result; the owner is who it was
C17_Witness ==
    \E r \in Threads :
        /\ Done(rq[r]) /\ rq[r].ep = "transfer"
        /\ rq[r].inp.address = "0xbb" /\ rq[r].inp.to_address = "0xAA"
        /\ ServiceAddr \in registered
        /\ rq[r].resp.success /\ rq[r].resp.status = 200
        /\ \E rc \in ReceiptsOf(rq[r]) : rc.status = 0
        /\ getCrop(rq[r].inp.crop_id).owner = OtherAddr

\* C18: after a register request has returned success with user_address
\* A, the ledger has A registered, for every well-formed A, the signing
\* account's or another's; and after a create-crop request has returned
\* success with owner O, the crop its transaction created is on the ledger
\* with owner O.
C18_SuccessMeansRegisteredOrOwned ==
    \A r \in Threads :
        LET q == rq[r] IN
        /\ (Done(q) /\ q.ep = "register" /\ q.resp.success) => registeredUsers(q.addr)
        /\ (Done(q) /\ q.ep = "create" /\ q.resp.success) =>
              \E rc \in ReceiptsOf(q) :
                  /\ rc.status = 1 /\ rc.created >= 0
                  /\ getCrop(rc.created).owner = ToChecksum(q.addr)

\* C18 fails: a register request for the other account passed the check,
\* its transaction, signed by the service's account, registered that
\* account, and the response is the success result for the other account,
\* which the ledger does not have registered
C18_Witness ==
    \E r \in Threads :
        /\ Done(rq[r]) /\ rq[r].ep = "register" /\ rq[r].inp.address = "0xBB"
        /\ rq[r].resp.success /\ rq[r].resp.status = 200
        /\ \E rc \in ReceiptsOf(rq[r]) : rc.status = 1
        /\ ServiceAddr \in registered
        /\ ~registeredUsers("0xBB")

====
